---- MODULE Spec2Model ----
(***************************************************************************)
(* A model of proj2_nps.py: the fetch-or-cache pipeline over three JSON    *)
(* cache files (state directory, site details, nearby places) and the      *)
(* interactive loop of main().                                             *)
(*                                                                         *)
(* Python values are modelled as follows.                                  *)
(*   - str: a TLA+ string.                                                 *)
(*   - a value that goes through json (dict, list, str, int, None): a      *)
(*     record [t, s, keys, kids] of one shape for every type, so that any  *)
(*     two values can be compared: t is the Python type, s the text of a   *)
(*     str or an int, keys the keys of a dict in insertion order, kids the *)
(*     values of a dict or the items of a list.                            *)
(*   - a NationalSite: a record of its five attributes; "a NationalSite or *)
(*     None" is a sequence of length 1 or 0.                               *)
(*   - a file: [exists, data], data being the sequence of JSON tokens the  *)
(*     file holds (a str token is the text behind a double quote).         *)
(***************************************************************************)
EXTENDS Integers, Sequences, FiniteSets, TLC

\* ------------------------------------------------------------------ bounds

\* The longest list of <li class="clearfix"> blocks a state page holds.
MaxBlocks == 3

\* Process instances of the program that share the cache files.
Procs == {1, 2}

\* ----------------------------------------------------------------- strings

Whitespace == {" ", "\t", "\n"}

RECURSIVE lstrip(_)
lstrip(s) ==
    IF Len(s) > 0 /\ SubSeq(s, 1, 1) \in Whitespace
    THEN lstrip(SubSeq(s, 2, Len(s)))
    ELSE s

RECURSIVE rstrip(_)
rstrip(s) ==
    IF Len(s) > 0 /\ SubSeq(s, Len(s), Len(s)) \in Whitespace
    THEN rstrip(SubSeq(s, 1, Len(s) - 1))
    ELSE s

\* str.strip(): the text without its leading and trailing whitespace.
strip(s) == lstrip(rstrip(s))

\* The letters of the model's texts that have a lower-case form.
lowerChar(c) ==
    CASE c = "A" -> "a" [] c = "B" -> "b" [] c = "C" -> "c" [] c = "E" -> "e"
      [] c = "H" -> "h" [] c = "I" -> "i" [] c = "K" -> "k" [] c = "M" -> "m"
      [] c = "O" -> "o" [] c = "T" -> "t" [] c = "X" -> "x"
      [] OTHER -> c

RECURSIVE lower(_)
\* str.lower()
lower(s) ==
    IF Len(s) = 0 THEN s
    ELSE lowerChar(SubSeq(s, 1, 1)) \o lower(SubSeq(s, 2, Len(s)))

Digits == {"0", "1", "2", "3", "4", "5", "6", "7", "8", "9"}

digitValue(c) ==
    CASE c = "0" -> 0 [] c = "1" -> 1 [] c = "2" -> 2 [] c = "3" -> 3
      [] c = "4" -> 4 [] c = "5" -> 5 [] c = "6" -> 6 [] c = "7" -> 7
      [] c = "8" -> 8 [] c = "9" -> 9

RECURSIVE allDigits(_)
allDigits(s) ==
    Len(s) = 0 \/ (SubSeq(s, 1, 1) \in Digits /\ allDigits(SubSeq(s, 2, Len(s))))

RECURSIVE digitsValue(_, _)
digitsValue(s, acc) ==
    IF Len(s) = 0 THEN acc
    ELSE digitsValue(SubSeq(s, 2, Len(s)), 10 * acc + digitValue(SubSeq(s, 1, 1)))

\* int(token): [ok, n]; not ok is Python's ValueError. A sign, then digits.
int(token) ==
    LET signed == Len(token) > 0 /\ SubSeq(token, 1, 1) \in {"-", "+"}
        body == IF signed THEN SubSeq(token, 2, Len(token)) ELSE token
    IN  IF Len(body) = 0 \/ ~allDigits(body)
        THEN [ok |-> FALSE, n |-> 0]
        ELSE [ok |-> TRUE,
              n |-> IF signed /\ SubSeq(token, 1, 1) = "-"
                    THEN 0 - digitsValue(body, 0)
                    ELSE digitsValue(body, 0)]

\* str(n) for the small naturals the program prints.
RECURSIVE str(_)
str(n) ==
    IF n < 10
    THEN CASE n = 0 -> "0" [] n = 1 -> "1" [] n = 2 -> "2" [] n = 3 -> "3"
           [] n = 4 -> "4" [] n = 5 -> "5" [] n = 6 -> "6" [] n = 7 -> "7"
           [] n = 8 -> "8" [] n = 9 -> "9"
    ELSE str(n \div 10) \o str(n % 10)

\* ------------------------------------------------------------ Python values

PyStr(s) == [t |-> "str", s |-> s, keys |-> <<>>, kids |-> <<>>]
PyInt(s) == [t |-> "int", s |-> s, keys |-> <<>>, kids |-> <<>>]
PyNone == [t |-> "None", s |-> "", keys |-> <<>>, kids |-> <<>>]
PyList(items) == [t |-> "list", s |-> "", keys |-> <<>>, kids |-> items]
PyDict(ks, vs) == [t |-> "dict", s |-> "", keys |-> ks, kids |-> vs]
EmptyDict == PyDict(<<>>, <<>>)

\* len(d)
DictLen(d) == Len(d.keys)

\* k in d
DictHas(d, k) == \E i \in 1..Len(d.keys) : d.keys[i] = k

\* d[k], for a key of d
DictGet(d, k) == d.kids[CHOOSE i \in 1..Len(d.keys) : d.keys[i] = k]

\* d[k] = v on an insertion-ordered dict: a present key keeps its place and
\* gets the new value, a new key goes last; every other entry is kept.
DictSet(d, k, v) ==
    IF DictHas(d, k)
    THEN PyDict(d.keys, [i \in 1..Len(d.kids) |-> IF d.keys[i] = k THEN v ELSE d.kids[i]])
    ELSE PyDict(Append(d.keys, k), Append(d.kids, v))

\* The (key, value) pairs of a dict.
DictItems(d) == {<<d.keys[i], d.kids[i]>> : i \in 1..Len(d.keys)}

\* ------------------------------------------------------------------- json

Quote(s) == "\"" \o s
IsStrTok(tk) == Len(tk) > 0 /\ SubSeq(tk, 1, 1) = "\""
Unquote(tk) == SubSeq(tk, 2, Len(tk))
IsIntTok(tk) == int(tk).ok

RECURSIVE json_dumps(_)
RECURSIVE dumpItems(_, _)
RECURSIVE dumpMembers(_, _)

\* The tokens of the items of a list from item i on, separated by commas.
dumpItems(v, i) ==
    IF i > Len(v.kids) THEN <<>>
    ELSE (IF i > 1 THEN <<",">> ELSE <<>>) \o json_dumps(v.kids[i]) \o dumpItems(v, i + 1)

\* The tokens of the members of a dict from member i on.
dumpMembers(v, i) ==
    IF i > Len(v.keys) THEN <<>>
    ELSE (IF i > 1 THEN <<",">> ELSE <<>>)
         \o <<Quote(v.keys[i]), ":">> \o json_dumps(v.kids[i]) \o dumpMembers(v, i + 1)

\* json.dump: the JSON text of a value, as tokens.
json_dumps(v) ==
    CASE v.t = "str" -> <<Quote(v.s)>>
      [] v.t = "int" -> <<v.s>>
      [] v.t = "None" -> <<"null">>
      [] v.t = "list" -> <<"[">> \o dumpItems(v, 1) \o <<"]">>
      [] v.t = "dict" -> <<"{">> \o dumpMembers(v, 1) \o <<"}">>

ParseFail == [ok |-> FALSE, val |-> PyNone, next |-> 0]
ParseOk(v, n) == [ok |-> TRUE, val |-> v, next |-> n]

RECURSIVE parseValue(_, _)
RECURSIVE parseMembers(_, _, _)
RECURSIVE parseItems(_, _, _)

\* The members of an object from the key at token i on; acc holds the members
\* read so far (a repeated key keeps its last value, as in json).
parseMembers(toks, i, acc) ==
    IF i + 1 > Len(toks) \/ ~IsStrTok(toks[i]) \/ toks[i + 1] # ":" THEN ParseFail
    ELSE LET r == parseValue(toks, i + 2) IN
         IF ~r.ok \/ r.next > Len(toks) THEN ParseFail
         ELSE LET acc2 == DictSet(acc, Unquote(toks[i]), r.val) IN
              IF toks[r.next] = "}" THEN ParseOk(acc2, r.next + 1)
              ELSE IF toks[r.next] = "," THEN parseMembers(toks, r.next + 1, acc2)
              ELSE ParseFail

\* The items of an array from the item at token i on.
parseItems(toks, i, acc) ==
    LET r == parseValue(toks, i) IN
    IF ~r.ok \/ r.next > Len(toks) THEN ParseFail
    ELSE LET acc2 == Append(acc, r.val) IN
         IF toks[r.next] = "]" THEN ParseOk(PyList(acc2), r.next + 1)
         ELSE IF toks[r.next] = "," THEN parseItems(toks, r.next + 1, acc2)
         ELSE ParseFail

\* One JSON value starting at token i: [ok, val, next].
parseValue(toks, i) ==
    IF i > Len(toks) THEN ParseFail
    ELSE LET tk == toks[i] IN
         IF tk = "{" THEN
             IF i + 1 <= Len(toks) /\ toks[i + 1] = "}"
             THEN ParseOk(EmptyDict, i + 2)
             ELSE parseMembers(toks, i + 1, EmptyDict)
         ELSE IF tk = "[" THEN
             IF i + 1 <= Len(toks) /\ toks[i + 1] = "]"
             THEN ParseOk(PyList(<<>>), i + 2)
             ELSE parseItems(toks, i + 1, <<>>)
         ELSE IF IsStrTok(tk) THEN ParseOk(PyStr(Unquote(tk)), i + 1)
         ELSE IF tk = "null" THEN ParseOk(PyNone, i + 1)
         ELSE IF IsIntTok(tk) THEN ParseOk(PyInt(tk), i + 1)
         ELSE ParseFail

\* json.load / json.loads: [ok, val]; not ok is json.JSONDecodeError (the
\* text is empty, cut short, has text after the value, or is not JSON).
json_loads(toks) ==
    LET r == parseValue(toks, 1) IN
    IF r.ok /\ r.next = Len(toks) + 1
    THEN [ok |-> TRUE, val |-> r.val]
    ELSE [ok |-> FALSE, val |-> PyNone]

\* ----------------------------------------------------------- NationalSite

\* NationalSite.__init__
NationalSite(category, name, address, zipcode, phone) ==
    [category |-> category, name |-> name, address |-> address,
     zipcode |-> zipcode, phone |-> phone]

\* NationalSite.info
info(ns) == ns.name \o " (" \o ns.category \o "): " \o ns.address \o " " \o ns.zipcode

\* "A NationalSite or None": None is <<>>, a site ns is <<ns>>.
None == <<>>
Some(v) == <<v>>

\* ------------------------------------------------------------- the files

STATE_CACHE_FILENAME == "STATE_URL_DICT.json"
SITE_CACHE_FILENAME == "SITE_URL_DICT.json"
NEARBY_CACHE_FILENAME == "NEARBY_PLACES.json"

Files == {STATE_CACHE_FILENAME, SITE_CACHE_FILENAME, NEARBY_CACHE_FILENAME}

\* CACHE_FILENAME with get_nearby_places given the name get_site_instance has.
CACHE_FILENAME_copied(fn) ==
    CASE fn = "build_state_url_dict" -> STATE_CACHE_FILENAME
      [] fn = "get_site_instance" -> SITE_CACHE_FILENAME
      [] fn = "get_nearby_places" -> SITE_CACHE_FILENAME

\* CACHE_FILENAME of each of the three caching functions.
CACHE_FILENAME(fn) ==
    CASE fn = "build_state_url_dict" -> STATE_CACHE_FILENAME
      [] fn = "get_site_instance" -> SITE_CACHE_FILENAME
      [] fn = "get_nearby_places" -> NEARBY_CACHE_FILENAME

NoFile == [exists |-> FALSE, data |-> <<>>]

\* openCache(filename) on the files d: [ok, val]. A missing file is the empty
\* dict; a file json.load cannot read raises (not ok).
openCache(d, filename) ==
    IF ~d[filename].exists
    THEN [ok |-> TRUE, val |-> EmptyDict]
    ELSE json_loads(d[filename].data)

\* closeCacheOpen with the file opened for appending: what it holds stays,
\* and the writes go after it.
closeCacheOpen_append(d, filename) ==
    [disk |-> [d EXCEPT ![filename] = [exists |-> TRUE, data |-> @.data]],
     pos |-> Len(d[filename].data)]

\* closeCache, first half: open(filename, "w") creates the file or cuts it to
\* nothing: [disk, pos], the files and the position of the opened file, at
\* which its writes begin.
closeCacheOpen(d, filename) ==
    [disk |-> [d EXCEPT ![filename] = [exists |-> TRUE, data |-> <<>>]],
     pos |-> 0]

\* What a file that holds old holds once text is written at the position pos:
\* text takes the place of what was there, and what the file holds beyond
\* the end of text stays. A gap before pos reads as zero bytes.
writeAt(old, pos, text) ==
    [k \in 1..pos |-> IF k <= Len(old) THEN old[k] ELSE "\\0"]
    \o text \o SubSeq(old, pos + Len(text) + 1, Len(old))

\* closeCache, second half: json.dump(cache, f) writes the text at the
\* position of the opened file, and the end of the with block flushes it.
closeCacheDump(d, cache, filename, pos) ==
    [d EXCEPT ![filename] =
       [exists |-> TRUE, data |-> writeAt(@.data, pos, json_dumps(cache))]]

\* ---------------------------------------------------------------- the web

TARGET_URL == "https://www.nps.gov/findapark/index.htm"
BASE_URL == "https://www.nps.gov"

\* An element of a parsed page that may be missing: <<>> or <<its text>>.
NoEl == <<>>
El(text) == <<text>>

\* The national directory page: its <area> elements, each with the alt and
\* href attributes it carries.
DirPageFull ==
    <<[alt |-> El("Michigan"), href |-> El("/state/mi/index.htm")],
      [alt |-> El("Ohio"), href |-> El("/state/oh/index.htm")]>>
DirPageEmpty == <<>>
DirPageNoHref == <<[alt |-> El("Michigan"), href |-> NoEl]>>
DirPages == {DirPageFull, DirPageEmpty, DirPageNoHref}

MI_URL == BASE_URL \o "/state/mi/index.htm"
OH_URL == BASE_URL \o "/state/oh/index.htm"
StateUrls == {MI_URL, OH_URL}

\* The detail page of a site: the elements get_site_instance looks for.
PageISRO ==
    [titleContainer |-> TRUE, a |-> El("Isle Royale"), designation |-> El("National Park"),
     adr |-> TRUE, addressLocality |-> El("Houghton"), addressRegion |-> El("MI "),
     postalCode |-> El(" 49931\n"), telephone |-> El("\n(906) 482-0984 ")]
PageKEWE ==
    [titleContainer |-> TRUE, a |-> El("Keweenaw"), designation |-> El(""),
     adr |-> TRUE, addressLocality |-> El("\nCalumet"), addressRegion |-> El("MI"),
     postalCode |-> El("49913"), telephone |-> El("906-337-3168")]

ISRO_HREF == "/isro/index.htm"
KEWE_HREF == "/kewe/index.htm"
ISRO_URL == BASE_URL \o ISRO_HREF
KEWE_URL == BASE_URL \o KEWE_HREF
SiteUrls == {ISRO_URL, KEWE_URL}

\* The page a site URL serves when it is whole.
SitePage(url) == IF url = ISRO_URL THEN PageISRO ELSE PageKEWE

\* What a fetch of a site URL may bring: the whole page, or the page with its
\* title block, address block or telephone missing.
SitePages(url) ==
    LET pg == SitePage(url) IN
    {pg,
     [pg EXCEPT !.adr = FALSE],
     [pg EXCEPT !.titleContainer = FALSE],
     [pg EXCEPT !.titleContainer = FALSE, !.adr = FALSE],
     [pg EXCEPT !.telephone = NoEl],
     [pg EXCEPT !.adr = FALSE, !.telephone = NoEl]}

NoPage ==
    [titleContainer |-> FALSE, a |-> NoEl, designation |-> NoEl, adr |-> FALSE,
     addressLocality |-> NoEl, addressRegion |-> NoEl, postalCode |-> NoEl,
     telephone |-> NoEl]

\* A <li class="clearfix"> block of a state page: its id attribute and the
\* href of its div/h3/a link.
AssetBlock(n, href) == [id |-> El("asset-" \o n), href |-> El(href)]
BlockISRO == AssetBlock("1", ISRO_HREF)
BlockKEWE == AssetBlock("2", KEWE_HREF)
BlockNoId == [id |-> NoEl, href |-> El(KEWE_HREF)]
BlockOtherId == [id |-> El("list-1"), href |-> El(ISRO_HREF)]
BlockNoLink == [id |-> El("asset-3"), href |-> NoEl]

RECURSIVE SeqsUpTo(_, _)
\* The sequences over S of length at most n.
SeqsUpTo(S, n) ==
    IF n = 0 THEN {<<>>}
    ELSE LET shorter == SeqsUpTo(S, n - 1) IN
         shorter \cup {Append(q, e) : q \in shorter, e \in S}

\* The state pages a fetch may bring. Michigan's page: any list of at most
\* MaxBlocks asset blocks. Ohio's page: lists with blocks that are not asset
\* blocks, or with an asset block that lacks the link.
StatePages(state_url) ==
    IF state_url = MI_URL
    THEN SeqsUpTo({BlockISRO, BlockKEWE}, MaxBlocks)
    ELSE {<<BlockNoId, BlockISRO, BlockOtherId>>, <<BlockKEWE, BlockNoLink>>}

\* The bodies the places-search endpoint answers with, as JSON tokens.
BodyResults ==
    json_dumps(PyDict(<<"resultsCount", "searchResults">>,
      <<PyInt("3"),
        PyList(<<
          PyDict(<<"name", "fields">>,
                 <<PyStr("Suomi Cafe"),
                   PyDict(<<"address", "city", "group_sic_code_name">>,
                          <<PyStr("54 Huron St"), PyStr("Houghton"), PyStr("Eating Places")>>)>>),
          PyDict(<<"name", "fields">>,
                 <<PyStr("Dock"),
                   PyDict(<<"address", "city", "group_sic_code_name">>,
                          <<PyStr(""), PyNone, PyStr("")>>)>>),
          PyDict(<<"name", "fields">>,
                 <<PyStr("Trailhead"), PyDict(<<"group_sic_code_name">>, <<PyNone>>)>>)
        >>)>>))
BodyNoResults ==
    json_dumps(PyDict(<<"resultsCount", "info">>,
                      <<PyInt("0"), PyDict(<<"statusCode">>, <<PyInt("0")>>)>>))
BodyNotJson == <<"<html>">>

ZIP_ISRO == "49931"
ZIP_KEWE == "49913"

\* The body the endpoint answers with for a postal code when it answers well.
PlacesBody(zipcode) == IF zipcode = ZIP_ISRO THEN BodyResults ELSE BodyNoResults

\* The sites a caller may pass to get_nearby_places: the two sites of the web
\* pages and a third site that shares the first one's postal code.
SiteISRO == NationalSite("National Park", "Isle Royale", "Houghton, MI", ZIP_ISRO, "(906) 482-0984")
SiteKEWE == NationalSite("", "Keweenaw", "\nCalumet, MI", ZIP_KEWE, "906-337-3168")
SiteOther == NationalSite("Museum", "Carnegie Museum", "Houghton, MI", ZIP_ISRO, "906-482-7140")
SiteObjects == {SiteISRO, SiteKEWE, SiteOther}

\* What the user may type at the two prompts of main.
StateInputs == {"exit", " Michigan ", "OHIO", "atlantis"}
SiteInputs == {"back", "exit", " 1", "2", "3", "4", "0", "-1", "-5", "abc", ""}

\* ------------------------------------------- the code of the functions

NetErrors == {"URLError", "UnicodeDecodeError"}

\* The exceptions that are a ValueError, which main's try catches.
ValueErrors == {"ValueError", "JSONDecodeError", "UnicodeDecodeError"}

RECURSIVE areasToDict(_, _)
\* build_state_url_dict's loop over the <area> elements, from the dict rd:
\* [exc, val]. area["alt"] or area["href"] of a missing attribute is KeyError.
areasToDict(areas, rd) ==
    IF areas = <<>> THEN [exc |-> "", val |-> rd]
    ELSE LET area == Head(areas) IN
         IF area.alt = NoEl \/ area.href = NoEl
         THEN [exc |-> "KeyError", val |-> PyNone]
         ELSE areasToDict(Tail(areas),
                          DictSet(rd, lower(area.alt[1]), PyStr(BASE_URL \o area.href[1])))

\* parseSitePage with a missing address block raising like the other elements.
parseSitePage_adrFatal(bs) ==
    IF ~bs.titleContainer \/ bs.a = NoEl \/ bs.designation = NoEl \/ ~bs.adr
       \/ bs.postalCode = NoEl \/ bs.addressLocality = NoEl
       \/ bs.addressRegion = NoEl \/ bs.telephone = NoEl
    THEN [exc |-> "AttributeError", site |-> None]
    ELSE [exc |-> "",
          site |-> Some(NationalSite(bs.designation[1], bs.a[1],
                                     bs.addressLocality[1] \o ", " \o strip(bs.addressRegion[1]),
                                     strip(bs.postalCode[1]),
                                     strip(bs.telephone[1])))]

\* parseSitePage with a missing telephone read as the empty text.
parseSitePage_noPhoneOk(bs) ==
    IF ~bs.titleContainer \/ bs.a = NoEl \/ bs.designation = NoEl
    THEN [exc |-> "AttributeError", site |-> None]
    ELSE IF ~bs.adr
    THEN [exc |-> "", site |-> None]
    ELSE IF bs.postalCode = NoEl \/ bs.addressLocality = NoEl
            \/ bs.addressRegion = NoEl
    THEN [exc |-> "AttributeError", site |-> None]
    ELSE [exc |-> "",
          site |-> Some(NationalSite(bs.designation[1], bs.a[1],
                                     bs.addressLocality[1] \o ", " \o strip(bs.addressRegion[1]),
                                     strip(bs.postalCode[1]),
                                     IF bs.telephone = NoEl THEN ""
                                     ELSE strip(bs.telephone[1])))]

\* parseSitePage with the city text stripped like the region text.
parseSitePage_cityStripped(bs) ==
    IF ~bs.titleContainer \/ bs.a = NoEl \/ bs.designation = NoEl
    THEN [exc |-> "AttributeError", site |-> None]
    ELSE IF ~bs.adr
    THEN [exc |-> "", site |-> None]
    ELSE IF bs.postalCode = NoEl \/ bs.addressLocality = NoEl
            \/ bs.addressRegion = NoEl \/ bs.telephone = NoEl
    THEN [exc |-> "AttributeError", site |-> None]
    ELSE [exc |-> "",
          site |-> Some(NationalSite(bs.designation[1], bs.a[1],
                                     strip(bs.addressLocality[1]) \o ", "
                                       \o strip(bs.addressRegion[1]),
                                     strip(bs.postalCode[1]),
                                     strip(bs.telephone[1])))]

\* get_site_instance's reading of a fetched page: [exc, site], site being None
\* for a page without the address block.
parseSitePage(bs) ==
    IF ~bs.titleContainer \/ bs.a = NoEl \/ bs.designation = NoEl
    THEN [exc |-> "AttributeError", site |-> None]
    ELSE IF ~bs.adr
    THEN [exc |-> "", site |-> None]
    ELSE IF bs.postalCode = NoEl \/ bs.addressLocality = NoEl
            \/ bs.addressRegion = NoEl \/ bs.telephone = NoEl
    THEN [exc |-> "AttributeError", site |-> None]
    ELSE [exc |-> "",
          site |-> Some(NationalSite(bs.designation[1], bs.a[1],
                                     bs.addressLocality[1] \o ", " \o strip(bs.addressRegion[1]),
                                     strip(bs.postalCode[1]),
                                     strip(bs.telephone[1])))]

\* siteEntry with the address stored under "phone" and the phone under "address".
siteEntry_swapped(ns) ==
    PyDict(<<"category", "name", "address", "zipcode", "phone">>,
           <<PyStr(ns.category), PyStr(ns.name), PyStr(ns.phone),
             PyStr(ns.zipcode), PyStr(ns.address)>>)

\* The cache entry get_site_instance stores for a site.
siteEntry(ns) ==
    PyDict(<<"category", "name", "address", "zipcode", "phone">>,
           <<PyStr(ns.category), PyStr(ns.name), PyStr(ns.address),
             PyStr(ns.zipcode), PyStr(ns.phone)>>)

\* The NationalSite get_site_instance makes of a cache entry.
siteFromEntry(c) ==
    NationalSite(DictGet(c, "category").s, DictGet(c, "name").s, DictGet(c, "address").s,
                 DictGet(c, "zipcode").s, DictGet(c, "phone").s)

\* storeSite with the cache replaced by a dict of the new entry alone.
storeSite_fresh(cache, site_url, ns) == DictSet(EmptyDict, site_url, siteEntry(ns))

\* get_site_instance's cache[site_url] = {...}
storeSite(cache, site_url, ns) == DictSet(cache, site_url, siteEntry(ns))

\* nearbyKey with the cache keyed by the site instead of its postal code.
nearbyKey_bySite(site_object) == site_object.name

\* The key get_nearby_places looks up and stores under.
nearbyKey(site_object) == site_object.zipcode

\* get_nearby_places's cache[site_object.zipcode] = d
storePlaces(cache, site_object, d) == DictSet(cache, nearbyKey(site_object), d)

\* statePopulated with the cached mapping never trusted.
statePopulated_never(cache) == FALSE

\* build_state_url_dict's test of the cache it opened.
statePopulated(cache) == DictLen(cache) # 0

\* str.startswith
startswith(s, prefix) == Len(s) >= Len(prefix) /\ SubSeq(s, 1, Len(prefix)) = prefix

\* get_sites_for_state's test of a block: an asset block has an id that starts
\* with "asset".
isAssetBlock(block) == block.id # NoEl /\ startswith(block.id[1], "asset")

\* appendSite with the site put at the front of the list.
appendSite_front(nationalSites, nationalSite) ==
    IF nationalSite # None THEN <<nationalSite[1]>> \o nationalSites ELSE nationalSites

\* get_sites_for_state's step on the result of get_site_instance.
appendSite(nationalSites, nationalSite) ==
    IF nationalSite # None THEN Append(nationalSites, nationalSite[1]) ELSE nationalSites

\* --------------------------------------------------------------- the state

VARIABLES
    disk,       \* the files: filename -> [exists, data]
    proc,       \* the locals of each process instance
    persisted,  \* history: per file, the (key, value) pairs complete documents held
    fetched,    \* history: per file, the keys whose fetch succeeded and parsed
    returned    \* history: per site URL, the site a cache miss returned, or None

vars == <<disk, proc, persisted, fetched, returned>>

InitDisk == [f \in Files |-> NoFile]

\* The record of a finished call of one of the three caching functions.
NoCall ==
    [fn |-> "", key |-> "", site |-> None, hit |-> FALSE, reqs |-> 0, exc |-> "",
     retVal |-> PyNone, retSite |-> None]

\* The locals of a process that is in no function.
InitLocal ==
    [pc |-> "idle", fn |-> "", stack |-> <<>>,
     \* locals of build_state_url_dict, get_site_instance, get_nearby_places
     \* (areas: None, or the <area> elements of the directory page fetched)
     cache |-> EmptyDict, site_url |-> "", site_object |-> None, page |-> NoPage,
     areas |-> None,
     \* (loaded: the cache as openCache gave it; pos: the position of the
     \* file closeCache opened)
     loaded |-> EmptyDict, pos |-> 0,
     retVal |-> PyNone, retSite |-> None, exc |-> "",
     \* per call: whether the key was cached, the requests issued, the files at entry
     hit |-> FALSE, reqs |-> 0, snap |-> InitDisk,
     \* locals of get_sites_for_state (bi: the place of the loop in blocks;
     \* resolved: the [url, ret] of each call of get_site_instance so far;
     \* stateFetches: fetches of the state page)
     state_url |-> "", blocks |-> <<>>, bi |-> 1, nationalSites |-> <<>>,
     resolved |-> <<>>, stateFetches |-> 0,
     \* locals of main (out: what was printed since the last input)
     state_dict |-> EmptyDict, nationalStates |-> <<>>, token |-> "", out |-> <<>>,
     \* history: the last call of a caching function that finished since the
     \* process was started, was at a prompt of main or began to list a state
     last |-> NoCall]

Init ==
    /\ disk = InitDisk
    /\ proc = [p \in Procs |-> InitLocal]
    /\ persisted = [f \in Files |-> {}]
    /\ fetched = [f \in Files |-> {}]
    /\ returned = [u \in SiteUrls |-> None]

CachedFns == {"build_state_url_dict", "get_site_instance", "get_nearby_places"}

\* The cache key of the running call of a caching function.
CallKey(L) ==
    CASE L.fn = "get_site_instance" -> L.site_url
      [] L.fn = "get_nearby_places" -> L.site_object[1].zipcode
      [] OTHER -> ""

\* The locals on entry to a caching function.
Enter(L, fn, d) ==
    [L EXCEPT !.fn = fn, !.pc = "open", !.cache = EmptyDict, !.page = NoPage,
              !.areas = None, !.loaded = EmptyDict, !.pos = 0,
              !.retVal = PyNone, !.retSite = None, !.exc = "",
              !.hit = FALSE, !.reqs = 0, !.snap = d]

\* Raise with one more try of the fetch before the exception leaves.
Raise_retry(L, exc) ==
    IF L.pc = "fetch" /\ L.reqs < 2
    THEN [L EXCEPT !.pc = "fetch"]
    ELSE [L EXCEPT !.pc = "ret", !.exc = exc]

\* The locals when the running function raises exc.
Raise(L, exc) == [L EXCEPT !.pc = "ret", !.exc = exc]

\* The document a file holds, as (key, value) pairs; none when it cannot be read.
DocItems(d, f) ==
    LET r == json_loads(d[f].data) IN
    IF d[f].exists /\ r.ok THEN DictItems(r.val) ELSE {}

\* ------------------------------------------------- calls from outside main

CallBuild(p) ==
    /\ proc[p].pc = "idle"
    /\ proc' = [proc EXCEPT ![p] = Enter(@, "build_state_url_dict", disk)]
    /\ UNCHANGED <<disk, persisted, fetched, returned>>

CallSite(p) ==
    /\ proc[p].pc = "idle"
    /\ \E u \in SiteUrls :
         proc' = [proc EXCEPT ![p] = Enter([@ EXCEPT !.site_url = u], "get_site_instance", disk)]
    /\ UNCHANGED <<disk, persisted, fetched, returned>>

CallNearby(p) ==
    /\ proc[p].pc = "idle"
    /\ \E s \in SiteObjects :
         proc' = [proc EXCEPT ![p] =
                    Enter([@ EXCEPT !.site_object = Some(s)], "get_nearby_places", disk)]
    /\ UNCHANGED <<disk, persisted, fetched, returned>>

\* ----------------------------------------------------- build_state_url_dict

\* openCache and the test of len(cache).
bsud_open(p) ==
    LET L == proc[p]
        r == openCache(disk, STATE_CACHE_FILENAME)
    IN  /\ L.fn = "build_state_url_dict" /\ L.pc = "open"
        /\ proc' = [proc EXCEPT ![p] =
              IF ~r.ok THEN Raise(L, "JSONDecodeError")
              ELSE IF statePopulated(r.val)
              THEN [L EXCEPT !.cache = r.val, !.loaded = r.val, !.hit = TRUE,
                             !.retVal = r.val, !.pc = "ret"]
              ELSE [L EXCEPT !.cache = r.val, !.loaded = r.val, !.pc = "fetch"]]
        /\ UNCHANGED <<disk, persisted, fetched, returned>>

\* urlopen, read, decode, and the loop over the areas.
bsud_fetch(p) ==
    LET L == proc[p]
        M == [L EXCEPT !.reqs = @ + 1]
    IN  /\ L.fn = "build_state_url_dict" /\ L.pc = "fetch"
        /\ \/ /\ \E e \in NetErrors : proc' = [proc EXCEPT ![p] = Raise(M, e)]
              /\ UNCHANGED fetched
           \/ \E areas \in DirPages :
                LET r == areasToDict(areas, EmptyDict)
                    N == [M EXCEPT !.areas = Some(areas)]
                IN
                IF r.exc # ""
                THEN /\ proc' = [proc EXCEPT ![p] = Raise(N, r.exc)]
                     /\ UNCHANGED fetched
                ELSE /\ proc' = [proc EXCEPT ![p] =
                           [N EXCEPT !.cache = r.val, !.retVal = r.val, !.pc = "close_open"]]
                     /\ fetched' = [fetched EXCEPT ![STATE_CACHE_FILENAME] =
                                      @ \cup {r.val.keys[i] : i \in 1..Len(r.val.keys)}]
        /\ UNCHANGED <<disk, persisted, returned>>

\* ------------------------------------------------------- get_site_instance

\* openCache and the test of site_url in cache.
gsi_open(p) ==
    LET L == proc[p]
        r == openCache(disk, SITE_CACHE_FILENAME)
    IN  /\ L.fn = "get_site_instance" /\ L.pc = "open"
        /\ proc' = [proc EXCEPT ![p] =
              IF ~r.ok THEN Raise(L, "JSONDecodeError")
              ELSE IF DictHas(r.val, L.site_url)
              THEN [L EXCEPT !.cache = r.val, !.loaded = r.val, !.hit = TRUE, !.pc = "ret",
                             !.retSite = Some(siteFromEntry(DictGet(r.val, L.site_url)))]
              ELSE [L EXCEPT !.cache = r.val, !.loaded = r.val, !.pc = "fetch"]]
        /\ UNCHANGED <<disk, persisted, fetched, returned>>

\* gsi_fetch with the None of a page without address block put into the cache
\* too, as an entry of empty fields.
gsi_fetch_negative(p) ==
    LET L == proc[p]
        M == [L EXCEPT !.reqs = @ + 1]
    IN  /\ L.fn = "get_site_instance" /\ L.pc = "fetch"
        /\ \/ /\ \E e \in NetErrors : proc' = [proc EXCEPT ![p] = Raise(M, e)]
              /\ UNCHANGED fetched
           \/ \E bs \in SitePages(L.site_url) :
                LET r == parseSitePage(bs)
                    N == [M EXCEPT !.page = bs]
                    ns == IF r.site = None THEN NationalSite("", "", "", "", "")
                          ELSE r.site[1]
                IN  IF r.exc # ""
                    THEN /\ proc' = [proc EXCEPT ![p] = Raise(N, r.exc)]
                         /\ UNCHANGED fetched
                    ELSE /\ proc' = [proc EXCEPT ![p] =
                               [N EXCEPT !.retSite = r.site, !.pc = "close_open",
                                         !.cache = storeSite(L.cache, L.site_url, ns)]]
                         /\ fetched' = [fetched EXCEPT ![SITE_CACHE_FILENAME] =
                                          @ \cup {L.site_url}]
        /\ UNCHANGED <<disk, persisted, returned>>

\* urlopen, read, decode, and the reading of the page.
gsi_fetch(p) ==
    LET L == proc[p]
        M == [L EXCEPT !.reqs = @ + 1]
    IN  /\ L.fn = "get_site_instance" /\ L.pc = "fetch"
        /\ \/ /\ \E e \in NetErrors : proc' = [proc EXCEPT ![p] = Raise(M, e)]
              /\ UNCHANGED fetched
           \/ \E bs \in SitePages(L.site_url) :
                LET r == parseSitePage(bs)
                    N == [M EXCEPT !.page = bs]
                IN  IF r.exc # ""
                    THEN /\ proc' = [proc EXCEPT ![p] = Raise(N, r.exc)]
                         /\ UNCHANGED fetched
                    ELSE IF r.site = None
                    THEN /\ proc' = [proc EXCEPT ![p] = [N EXCEPT !.pc = "ret"]]
                         /\ UNCHANGED fetched
                    ELSE /\ proc' = [proc EXCEPT ![p] =
                               [N EXCEPT !.retSite = r.site, !.pc = "close_open",
                                         !.cache = storeSite(L.cache, L.site_url, r.site[1])]]
                         /\ fetched' = [fetched EXCEPT ![SITE_CACHE_FILENAME] =
                                          @ \cup {L.site_url}]
        /\ UNCHANGED <<disk, persisted, returned>>

\* ------------------------------------------------------- get_nearby_places

\* openCache and the test of site_object.zipcode in cache.
gnp_open(p) ==
    LET L == proc[p]
        r == openCache(disk, NEARBY_CACHE_FILENAME)
        zipcode == nearbyKey(L.site_object[1])
    IN  /\ L.fn = "get_nearby_places" /\ L.pc = "open"
        /\ proc' = [proc EXCEPT ![p] =
              IF ~r.ok THEN Raise(L, "JSONDecodeError")
              ELSE IF DictHas(r.val, zipcode)
              THEN [L EXCEPT !.cache = r.val, !.loaded = r.val, !.hit = TRUE, !.pc = "ret",
                             !.retVal = DictGet(r.val, zipcode)]
              ELSE [L EXCEPT !.cache = r.val, !.loaded = r.val, !.pc = "fetch"]]
        /\ UNCHANGED <<disk, persisted, fetched, returned>>

\* urlopen, read, decode, json.loads.
gnp_fetch(p) ==
    LET L == proc[p]
        M == [L EXCEPT !.reqs = @ + 1]
        zipcode == L.site_object[1].zipcode
        key == nearbyKey(L.site_object[1])
    IN  /\ L.fn = "get_nearby_places" /\ L.pc = "fetch"
        /\ \/ /\ \E e \in NetErrors : proc' = [proc EXCEPT ![p] = Raise(M, e)]
              /\ UNCHANGED fetched
           \/ \E js \in {PlacesBody(zipcode), BodyNotJson} :
                LET d == json_loads(js) IN
                IF ~d.ok
                THEN /\ proc' = [proc EXCEPT ![p] = Raise(M, "JSONDecodeError")]
                     /\ UNCHANGED fetched
                ELSE /\ proc' = [proc EXCEPT ![p] =
                           [M EXCEPT !.retVal = d.val, !.pc = "close_open",
                                     !.cache = storePlaces(L.cache, L.site_object[1], d.val)]]
                     /\ fetched' = [fetched EXCEPT ![NEARBY_CACHE_FILENAME] =
                                      @ \cup {key}]
        /\ UNCHANGED <<disk, persisted, returned>>

\* --------------------------------------------------------------- closeCache

\* close_open with the file read again before it is opened, and the entry of
\* this call put into what it holds now.
close_open_merge(p) ==
    LET L == proc[p]
        f == CACHE_FILENAME(L.fn)
        now == openCache(disk, f)
        o == closeCacheOpen(disk, f)
    IN  /\ L.fn \in CachedFns /\ L.pc = "close_open"
        /\ disk' = o.disk
        /\ proc' = [proc EXCEPT ![p] =
              [L EXCEPT !.pc = "close_dump", !.pos = o.pos,
                        !.cache = IF now.ok /\ L.fn # "build_state_url_dict"
                                  THEN DictSet(now.val, CallKey(L),
                                               DictGet(L.cache, CallKey(L)))
                                  ELSE L.cache]]
        /\ UNCHANGED <<persisted, fetched, returned>>

\* open(filename, "w")
close_open(p) ==
    LET L == proc[p]
        o == closeCacheOpen(disk, CACHE_FILENAME(L.fn))
    IN  /\ L.fn \in CachedFns /\ L.pc = "close_open"
        /\ disk' = o.disk
        /\ proc' = [proc EXCEPT ![p] = [L EXCEPT !.pc = "close_dump", !.pos = o.pos]]
        /\ UNCHANGED <<persisted, fetched, returned>>

\* json.dump(cache, f) and the end of the with block
close_dump(p) ==
    LET L == proc[p]
        f == CACHE_FILENAME(L.fn)
    IN  /\ L.fn \in CachedFns /\ L.pc = "close_dump"
        /\ disk' = closeCacheDump(disk, L.cache, f, L.pos)
        /\ proc' = [proc EXCEPT ![p].pc = "ret"]
        /\ persisted' = [persisted EXCEPT ![f] = @ \cup DocItems(disk', f)]
        /\ UNCHANGED <<fetched, returned>>

\* ------------------------------------------------------------------ return

\* The record of the call that is returning.
CallRecord(L) ==
    [fn |-> L.fn, key |-> CallKey(L), site |-> L.site_object, hit |-> L.hit,
     reqs |-> L.reqs, exc |-> L.exc, retVal |-> L.retVal, retSite |-> L.retSite]

\* The history after the running call returns.
ReturnedAfter(L) ==
    IF L.fn = "get_site_instance" /\ L.exc = "" /\ ~L.hit /\ L.retSite # None
    THEN [returned EXCEPT ![L.site_url] = L.retSite]
    ELSE returned

\* A call from outside main returns or raises to its caller.
ReturnToCaller(p) ==
    LET L == proc[p] IN
    /\ L.pc = "ret" /\ L.stack = <<>>
    /\ proc' = [proc EXCEPT ![p] =
          [InitLocal EXCEPT !.last = IF L.fn \in CachedFns THEN CallRecord(L) ELSE L.last]]
    /\ returned' = ReturnedAfter(L)
    /\ UNCHANGED <<disk, persisted, fetched>>

\* ----------------------------------------------------- get_sites_for_state

CallList(p) ==
    /\ proc[p].pc = "idle"
    /\ \E su \in StateUrls :
         proc' = [proc EXCEPT ![p] =
                    [@ EXCEPT !.fn = "get_sites_for_state", !.pc = "fetch", !.state_url = su,
                              !.last = NoCall]]
    /\ UNCHANGED <<disk, persisted, fetched, returned>>

\* gsfs_fetch with the state page fetched once more before it is read.
gsfs_fetch_again(p) ==
    LET L == proc[p]
        M == [L EXCEPT !.stateFetches = @ + 2]
    IN  /\ L.fn = "get_sites_for_state" /\ L.pc = "fetch"
        /\ \/ \E e \in NetErrors : proc' = [proc EXCEPT ![p] = Raise(M, e)]
           \/ \E blocks \in StatePages(L.state_url) :
                proc' = [proc EXCEPT ![p] =
                           [M EXCEPT !.blocks = blocks, !.bi = 1, !.nationalSites = <<>>,
                                     !.resolved = <<>>, !.pc = "loop"]]
        /\ UNCHANGED <<disk, persisted, fetched, returned>>

\* urlopen, read, decode, and findAll of the blocks.
gsfs_fetch(p) ==
    LET L == proc[p]
        M == [L EXCEPT !.stateFetches = @ + 1]
    IN  /\ L.fn = "get_sites_for_state" /\ L.pc = "fetch"
        /\ \/ \E e \in NetErrors : proc' = [proc EXCEPT ![p] = Raise(M, e)]
           \/ \E blocks \in StatePages(L.state_url) :
                proc' = [proc EXCEPT ![p] =
                           [M EXCEPT !.blocks = blocks, !.bi = 1, !.nationalSites = <<>>,
                                     !.resolved = <<>>, !.pc = "loop"]]
        /\ UNCHANGED <<disk, persisted, fetched, returned>>

\* The loop passes a block that is no asset block.
gsfs_skip(p) ==
    LET L == proc[p] IN
    /\ L.fn = "get_sites_for_state" /\ L.pc = "loop"
    /\ L.bi <= Len(L.blocks) /\ ~isAssetBlock(L.blocks[L.bi])
    /\ proc' = [proc EXCEPT ![p].bi = L.bi + 1]
    /\ UNCHANGED <<disk, persisted, fetched, returned>>

\* The loop takes the link of an asset block and calls get_site_instance.
gsfs_call(p) ==
    LET L == proc[p]
        block == L.blocks[L.bi]
    IN  /\ L.fn = "get_sites_for_state" /\ L.pc = "loop"
        /\ L.bi <= Len(L.blocks) /\ isAssetBlock(block)
        /\ proc' = [proc EXCEPT ![p] =
              IF block.href = NoEl THEN Raise(L, "AttributeError")
              ELSE Enter([L EXCEPT !.bi = L.bi + 1,
                                   !.stack = Append(L.stack, "get_sites_for_state"),
                                   !.site_url = BASE_URL \o block.href[1]],
                         "get_site_instance", disk)]
        /\ UNCHANGED <<disk, persisted, fetched, returned>>

\* get_site_instance returns or raises into the loop.
gsfs_resume(p) ==
    LET L == proc[p]
        M == [L EXCEPT !.fn = "get_sites_for_state",
                       !.stack = SubSeq(L.stack, 1, Len(L.stack) - 1),
                       !.last = CallRecord(L),
                       !.cache = EmptyDict, !.loaded = EmptyDict, !.pos = 0,
                       !.site_url = "", !.page = NoPage,
                       !.retSite = None, !.hit = FALSE, !.reqs = 0, !.snap = InitDisk]
    IN  /\ L.pc = "ret" /\ L.fn = "get_site_instance"
        /\ L.stack # <<>> /\ L.stack[Len(L.stack)] = "get_sites_for_state"
        /\ proc' = [proc EXCEPT ![p] =
              IF L.exc # "" THEN M
              ELSE [M EXCEPT !.pc = "loop",
                             !.resolved = Append(L.resolved,
                                                 [url |-> L.site_url, ret |-> L.retSite]),
                             !.nationalSites = appendSite(L.nationalSites, L.retSite)]]
        /\ returned' = ReturnedAfter(L)
        /\ UNCHANGED <<disk, persisted, fetched>>

\* The loop is over: return nationalSites.
gsfs_done(p) ==
    LET L == proc[p] IN
    /\ L.fn = "get_sites_for_state" /\ L.pc = "loop" /\ L.bi > Len(L.blocks)
    /\ proc' = [proc EXCEPT ![p].pc = "ret"]
    /\ UNCHANGED <<disk, persisted, fetched, returned>>

\* -------------------------------------------------------------------- main

SEPERATOR == "----------------------------------"

\* seq[i] of Python, i counted from 0 and a negative i from the end:
\* [ok, val]; not ok is IndexError.
pyIndex(seq, i) ==
    LET j == IF i < 0 THEN i + Len(seq) ELSE i IN
    IF j < 0 \/ j >= Len(seq)
    THEN [ok |-> FALSE, val |-> None]
    ELSE [ok |-> TRUE, val |-> Some(seq[j + 1])]

\* main's reading of the token typed at the site prompt: [exc, site].
selectSite(nationalStates, token) ==
    LET id == int(token) IN
    IF ~id.ok \/ id.n > Len(nationalStates)
    THEN [exc |-> "ValueError", site |-> None]
    ELSE LET ns == pyIndex(nationalStates, id.n - 1) IN
         IF ns.ok THEN [exc |-> "", site |-> ns.val]
         ELSE [exc |-> "IndexError", site |-> None]

\* fieldOr with the placeholder for a field that is not there only.
fieldOr_absentOnly(fields, name, placeholder) ==
    IF ~DictHas(fields, name) \/ DictGet(fields, name) = PyNone
    THEN placeholder
    ELSE DictGet(fields, name).s

\* The text main shows for a field of a result.
fieldOr(fields, name, placeholder) ==
    IF ~DictHas(fields, name) \/ DictGet(fields, name) = PyStr("")
       \/ DictGet(fields, name) = PyNone
    THEN placeholder
    ELSE DictGet(fields, name).s

\* The line main prints for one result.
resultLine(result) ==
    LET fields == DictGet(result, "fields")
        category == fieldOr(fields, "group_sic_code_name", "no category")
        address == fieldOr(fields, "address", "no address")
        city == fieldOr(fields, "city", "no city")
        street_address == address \o ", " \o city
    IN  "- " \o DictGet(result, "name").s \o " (" \o category \o "): " \o street_address

\* showPlaces with nearJsDict["searchResults"] read without the test for it.
showPlaces_noResultsFatal(ns, nearJsDict) ==
    LET head == <<SEPERATOR, "Places near " \o ns.name, SEPERATOR>> IN
    IF ~DictHas(nearJsDict, "searchResults")
    THEN [exc |-> "KeyError", out |-> head]
    ELSE LET results == DictGet(nearJsDict, "searchResults").kids IN
         IF \E i \in 1..Len(results) :
                ~DictHas(results[i], "fields") \/ ~DictHas(results[i], "name")
         THEN [exc |-> "KeyError", out |-> head]
         ELSE [exc |-> "", out |-> head \o [i \in 1..Len(results) |-> resultLine(results[i])]]

\* What main prints for the answer of get_nearby_places: [exc, out].
showPlaces(ns, nearJsDict) ==
    LET head == <<SEPERATOR, "Places near " \o ns.name, SEPERATOR>> IN
    IF ~DictHas(nearJsDict, "searchResults")
    THEN [exc |-> "", out |-> head \o <<"No such near results", SEPERATOR>>]
    ELSE LET results == DictGet(nearJsDict, "searchResults").kids IN
         IF \E i \in 1..Len(results) :
                ~DictHas(results[i], "fields") \/ ~DictHas(results[i], "name")
         THEN [exc |-> "KeyError", out |-> head]
         ELSE [exc |-> "", out |-> head \o [i \in 1..Len(results) |-> resultLine(results[i])]]

\* What main prints for the list of sites of a state.
showSites(token, nationalStates) ==
    <<SEPERATOR, "List of national sites in " \o token, SEPERATOR>>
    \o [i \in 1..Len(nationalStates) |-> "[" \o str(i) \o "] " \o info(nationalStates[i])]

InputError == <<"[Error] Invalid input", "", SEPERATOR>>

\* The locals of main alone, at one of its prompts.
AtPrompt(L, pc, out) ==
    [InitLocal EXCEPT !.fn = "main", !.pc = pc, !.out = out, !.token = L.token,
                      !.state_dict = L.state_dict, !.nationalStates = L.nationalStates]

\* The process after an exception nothing catches ended it.
Dead(L, exc) == [InitLocal EXCEPT !.pc = "dead", !.exc = exc, !.last = L.last]

\* The process after main returned.
Done(L) == [InitLocal EXCEPT !.pc = "done", !.last = L.last]

\* main starts: it calls build_state_url_dict.
CallMain(p) ==
    /\ proc[p].pc = "idle"
    /\ proc' = [proc EXCEPT ![p] =
                  Enter([@ EXCEPT !.stack = <<"main">>, !.last = NoCall],
                        "build_state_url_dict", disk)]
    /\ UNCHANGED <<disk, persisted, fetched, returned>>

InMainCallee(L, fn) ==
    L.pc = "ret" /\ L.fn = fn /\ L.stack = <<"main">>

\* build_state_url_dict returns or raises into main.
main_built(p) ==
    LET L == proc[p]
        M == [L EXCEPT !.last = CallRecord(L)]
    IN  /\ InMainCallee(L, "build_state_url_dict")
        /\ proc' = [proc EXCEPT ![p] =
              IF L.exc # "" THEN Dead(M, L.exc)
              ELSE AtPrompt([M EXCEPT !.state_dict = L.retVal], "state_prompt", <<>>)]
        /\ UNCHANGED <<disk, persisted, fetched, returned>>

\* The prompt for a state name, and what main does with the token.
main_state_input(p) ==
    LET L == proc[p] IN
    /\ L.fn = "main" /\ L.pc = "state_prompt"
    /\ \E typed \in StateInputs :
         LET token == lower(strip(typed))
             M == [L EXCEPT !.token = token]
         IN  proc' = [proc EXCEPT ![p] =
               IF token = "exit" THEN Done(M)
               ELSE IF ~DictHas(L.state_dict, token)
               THEN AtPrompt(M, "state_prompt", <<"[Error] Enter proper state name">>)
               ELSE [M EXCEPT !.fn = "get_sites_for_state", !.pc = "fetch", !.out = <<>>,
                              !.stack = <<"main">>,
                              !.state_url = DictGet(L.state_dict, token).s]]
    /\ UNCHANGED <<disk, persisted, fetched, returned>>

\* get_sites_for_state returns or raises into main.
main_listed(p) ==
    LET L == proc[p] IN
    /\ InMainCallee(L, "get_sites_for_state")
    /\ proc' = [proc EXCEPT ![p] =
          IF L.exc # "" THEN Dead(L, L.exc)
          ELSE AtPrompt([L EXCEPT !.nationalStates = L.nationalSites], "site_prompt",
                        showSites(L.token, L.nationalSites))]
    /\ UNCHANGED <<disk, persisted, fetched, returned>>

\* The prompt for a site number, and what main does with the token.
main_site_input(p) ==
    LET L == proc[p] IN
    /\ L.fn = "main" /\ L.pc = "site_prompt"
    /\ \E typed \in SiteInputs :
         LET token == lower(strip(typed))
             M == [L EXCEPT !.token = token]
             sel == selectSite(L.nationalStates, token)
         IN  proc' = [proc EXCEPT ![p] =
               IF token = "back" THEN AtPrompt(M, "state_prompt", <<>>)
               ELSE IF token = "exit" THEN Done(M)
               ELSE IF sel.exc \in ValueErrors THEN AtPrompt(M, "site_prompt", InputError)
               ELSE IF sel.exc # "" THEN Dead(M, sel.exc)
               ELSE Enter([M EXCEPT !.stack = <<"main">>, !.out = <<>>,
                                    !.site_object = sel.site],
                          "get_nearby_places", disk)]
    /\ UNCHANGED <<disk, persisted, fetched, returned>>

\* get_nearby_places returns or raises into main's try block.
main_looked(p) ==
    LET L == proc[p]
        M == [L EXCEPT !.last = CallRecord(L)]
        shown == showPlaces(L.site_object[1], L.retVal)
    IN  /\ InMainCallee(L, "get_nearby_places")
        /\ proc' = [proc EXCEPT ![p] =
              IF L.exc \in ValueErrors THEN AtPrompt(M, "site_prompt", InputError)
              ELSE IF L.exc # "" THEN Dead(M, L.exc)
              ELSE IF shown.exc # "" THEN [Dead(M, shown.exc) EXCEPT !.out = shown.out]
              ELSE AtPrompt(M, "site_prompt", shown.out)]
        /\ UNCHANGED <<disk, persisted, fetched, returned>>

\* A new process instance after the last one ended.
Restart(p) ==
    /\ proc[p].pc \in {"dead", "done"}
    /\ proc' = [proc EXCEPT ![p] = [InitLocal EXCEPT !.last = proc[p].last]]
    /\ UNCHANGED <<disk, persisted, fetched, returned>>

Step(p) ==
    \/ CallBuild(p) \/ CallSite(p) \/ CallNearby(p)
    \/ bsud_open(p) \/ bsud_fetch(p)
    \/ gsi_open(p) \/ gsi_fetch(p)
    \/ gnp_open(p) \/ gnp_fetch(p)
    \/ close_open(p) \/ close_dump(p)
    \/ ReturnToCaller(p)
    \/ CallList(p) \/ gsfs_fetch(p) \/ gsfs_skip(p) \/ gsfs_call(p)
    \/ gsfs_resume(p) \/ gsfs_done(p)
    \/ CallMain(p) \/ main_built(p) \/ main_state_input(p) \/ main_listed(p)
    \/ main_site_input(p) \/ main_looked(p) \/ Restart(p)

\* One process instance runs: calls of the four functions, and main.
Next == Step(1)

Spec == Init /\ [][Next]_vars

\* ------------------------------------------------------------------ a crash

\* The process is killed (or the machine stops) in the middle of a call. The
\* locals are kept as they were, for the record. In the middle of json.dump
\* any part of the text may have reached the file.
Kill(p) ==
    LET L == proc[p]
        f == CACHE_FILENAME(L.fn)
        text == json_dumps(L.cache)
    IN  /\ L.fn \in CachedFns /\ L.pc \in {"open", "fetch", "close_open", "close_dump"}
        /\ proc' = [proc EXCEPT ![p] = [L EXCEPT !.pc = "dead", !.exc = "killed"]]
        /\ IF L.pc = "close_dump"
           THEN \E n \in 0..Len(text) :
                  disk' = [disk EXCEPT ![f].data = writeAt(@, L.pos, SubSeq(text, 1, n))]
           ELSE UNCHANGED disk
        /\ UNCHANGED <<persisted, fetched, returned>>

StepCrash(p) ==
    \/ CallBuild(p) \/ CallSite(p) \/ CallNearby(p)
    \/ bsud_open(p) \/ bsud_fetch(p)
    \/ gsi_open(p) \/ gsi_fetch(p)
    \/ gnp_open(p) \/ gnp_fetch(p)
    \/ close_open(p) \/ close_dump(p)
    \/ ReturnToCaller(p) \/ Kill(p)

\* One process instance runs calls of the three caching functions until it is
\* killed at some point of a call.
NextCrash == StepCrash(1)

SpecCrash == Init /\ [][NextCrash]_vars

\* ------------------------------------------------------- two processes

\* The process instance ends after its call, and another one takes its place,
\* once no instance is in the middle of a call.
Exit(p) ==
    LET L == proc[p] IN
    /\ L.pc = "ret" /\ L.stack = <<>>
    /\ \A q \in Procs : proc[q].pc \in {"ret", "idle"}
    /\ proc' = [proc EXCEPT ![p] = InitLocal]
    /\ returned' = ReturnedAfter(L)
    /\ UNCHANGED <<disk, persisted, fetched>>

\* A process instance makes one call of get_site_instance or
\* get_nearby_places and ends.
StepRace(p) ==
    \/ CallSite(p) \/ CallNearby(p)
    \/ gsi_open(p) \/ gsi_fetch(p)
    \/ gnp_open(p) \/ gnp_fetch(p)
    \/ close_open(p) \/ close_dump(p)
    \/ Exit(p)

\* Two process instances run at the same time on the same files, their steps
\* in any order: nothing in the code locks a file.
NextRace == \E p \in Procs : StepRace(p)

SpecRace == Init /\ [][NextRace]_vars

\* ------------------------------------------------------------ the claims

Ret(L, fn) == L.pc = "ret" /\ L.fn = fn

SiteDoc(d) == openCache(d, SITE_CACHE_FILENAME)
NearbyDoc(d) == openCache(d, NEARBY_CACHE_FILENAME)
StateDoc(d) == openCache(d, STATE_CACHE_FILENAME)

\* C1: when get_nearby_places(s1) missed the cache and returned, and the next
\* call get_nearby_places(s2) with s2.zipcode = s1.zipcode returns, the two
\* calls issued one network request in all and returned the same value.
C1_SameZipOneRequest ==
    \A p \in Procs :
      LET L == proc[p] IN
      (/\ Ret(L, "get_nearby_places") /\ L.exc = ""
       /\ L.last.fn = "get_nearby_places" /\ L.last.exc = "" /\ ~L.last.hit
       /\ L.last.site[1].zipcode = L.site_object[1].zipcode)
      => /\ L.last.reqs + L.reqs = 1
         /\ L.retVal = L.last.retVal

\* C1's case: the second call returns for another site with the same postal code.
C1_Witness ==
    \E p \in Procs :
      LET L == proc[p] IN
      /\ Ret(L, "get_nearby_places") /\ L.exc = ""
      /\ L.last.fn = "get_nearby_places" /\ L.last.exc = "" /\ ~L.last.hit
      /\ L.last.site = Some(SiteISRO) /\ L.site_object = Some(SiteOther)
      /\ L.retVal = json_loads(BodyResults).val

\* A call of get_site_instance that fetched a page without the address block
\* is returning.
NoAddressFetched(L) ==
    Ret(L, "get_site_instance") /\ ~L.hit /\ L.page # NoPage /\ ~L.page.adr

\* The title block of a page holds the name link and the designation.
TitleWhole(bs) == bs.titleContainer /\ bs.a # NoEl /\ bs.designation # NoEl

\* C2 as stated: for a fetched page without the address block, whatever else
\* it lacks, get_site_instance returns None and the site-detail document is as
\* it was before the call.
C2_NoAddressReturnsNone ==
    \A p \in Procs :
      LET L == proc[p] IN
      NoAddressFetched(L)
      => /\ L.exc = "" /\ L.retSite = None
         /\ disk[SITE_CACHE_FILENAME] = L.snap[SITE_CACHE_FILENAME]

\* C2 amended: for a fetched page without the address block the site-detail
\* document is as it was before the call and no site is returned; the call
\* returns None when the title block is whole and raises AttributeError when
\* the title block is missing.
C2_NoAddressWithTitleReturnsNone ==
    \A p \in Procs :
      LET L == proc[p] IN
      NoAddressFetched(L)
      => /\ disk[SITE_CACHE_FILENAME] = L.snap[SITE_CACHE_FILENAME]
         /\ L.retSite = None
         /\ L.exc = IF TitleWhole(L.page) THEN "" ELSE "AttributeError"

\* C2's case: None is returned for a page with a title and no address block,
\* while the document holds an entry.
C2_Witness ==
    \E p \in Procs :
      LET L == proc[p] IN
      /\ NoAddressFetched(L) /\ TitleWhole(L.page) /\ L.exc = "" /\ L.retSite = None
      /\ DictLen(SiteDoc(disk).val) = 1

\* A process is inside closeCache on file f, between open and the end of dump.
MidWrite(f) ==
    \E p \in Procs :
      /\ proc[p].fn \in CachedFns /\ proc[p].pc = "close_dump"
      /\ CACHE_FILENAME(proc[p].fn) = f

\* C3: between the writes of a file, every (key, value) a complete document of
\* the file ever held is in the document, and every key of the document is one
\* whose fetch succeeded and parsed.
C3_CacheOnlyGrows ==
    \A f \in Files :
      LET items == DocItems(disk, f) IN
      ~MidWrite(f)
      => /\ persisted[f] \subseteq items
         /\ {e[1] : e \in items} \subseteq fetched[f]

\* C3's case: both caches hold entries, the site cache two of them, and a call
\* of get_nearby_places for a postal code that is not cached has just failed.
C3_Witness ==
    /\ Cardinality(persisted[SITE_CACHE_FILENAME]) = 2
    /\ Cardinality(persisted[NEARBY_CACHE_FILENAME]) = 1
    /\ \E p \in Procs : Ret(proc[p], "get_nearby_places") /\ proc[p].exc # ""

\* C4: a call of get_site_instance or get_nearby_places that raises has issued
\* one request, leaves its file as it was with the key not in it, and when the
\* next call looks up the same key it misses and issues a request again.
C4_FailureLeavesNotCached ==
    \A p \in Procs :
      LET L == proc[p]
          f == CACHE_FILENAME(L.fn)
      IN  (L.pc = "ret" /\ L.fn \in {"get_site_instance", "get_nearby_places"})
          => /\ L.exc # ""
                => /\ L.reqs = 1
                   /\ L.retSite = None /\ L.retVal = PyNone
                   /\ disk[f] = L.snap[f]
                   /\ ~DictHas(openCache(disk, f).val, CallKey(L))
             /\ (L.last.fn = L.fn /\ L.last.exc # "" /\ L.last.key = CallKey(L))
                => ~L.hit /\ L.reqs = 1

\* C4's case: the lookup after a failed lookup of the same postal code has
\* fetched again, and well.
C4_Witness ==
    \E p \in Procs :
      LET L == proc[p] IN
      /\ Ret(L, "get_nearby_places") /\ L.exc = "" /\ L.reqs = 1
      /\ L.last.fn = "get_nearby_places" /\ L.last.exc = "JSONDecodeError"
      /\ L.last.key = CallKey(L)

\* A call of build_state_url_dict that found a mapping in the file is returning.
BuildOnPopulated(L) ==
    /\ Ret(L, "build_state_url_dict")
    /\ StateDoc(L.snap).ok /\ DictLen(StateDoc(L.snap).val) # 0

\* C5: with a mapping in the state_url file, build_state_url_dict returns that
\* mapping, issues no request and leaves the files as they were; two such
\* calls in a row return the same mapping.
C5_BuildIdempotent ==
    \A p \in Procs :
      LET L == proc[p] IN
      BuildOnPopulated(L)
      => /\ L.exc = "" /\ L.reqs = 0
         /\ L.retVal = StateDoc(L.snap).val
         /\ disk = L.snap
         /\ (L.last.fn = "build_state_url_dict" /\ L.last.hit)
            => L.retVal = L.last.retVal /\ L.last.reqs = 0

\* C5's case: the second of two calls in a row on a populated file returns.
C5_Witness ==
    \E p \in Procs :
      LET L == proc[p] IN
      /\ BuildOnPopulated(L) /\ L.hit /\ DictLen(L.retVal) = 2
      /\ L.last.fn = "build_state_url_dict" /\ L.last.hit

\* A call that wrote its cache with closeCache is returning.
Wrote(L) ==
    /\ L.pc = "ret" /\ L.fn \in CachedFns /\ L.exc = "" /\ ~L.hit
    /\ L.fn = "get_site_instance" => L.retSite # None

\* C6: after closeCache(cache, file), openCache(file) gives a mapping equal to
\* cache; and openCache of a file that does not exist gives the empty mapping.
C6_CacheRoundTrip ==
    /\ \A p \in Procs :
         Wrote(proc[p])
         => openCache(disk, CACHE_FILENAME(proc[p].fn))
              = [ok |-> TRUE, val |-> proc[p].cache]
    /\ \A f \in Files :
         ~disk[f].exists => openCache(disk, f) = [ok |-> TRUE, val |-> EmptyDict]

\* C6's case: a mapping of two entries was written over a file that held one,
\* while another file does not exist.
C6_Witness ==
    \E p \in Procs :
      /\ Wrote(proc[p]) /\ proc[p].fn = "get_site_instance"
      /\ DictLen(proc[p].cache) = 2
      /\ proc[p].snap[SITE_CACHE_FILENAME].exists
      /\ ~disk[NEARBY_CACHE_FILENAME].exists

\* The site get_site_instance returned for an asset block is no None.
IsSite(r) == r.ret # None

\* C7: get_sites_for_state returns the results of get_site_instance that are
\* no None, over the asset blocks of the page in the order of the page: one
\* call per asset block, a block that comes twice called and listed twice.
C7_ListIsNonNoneResultsInOrder ==
    \A p \in Procs :
      LET L == proc[p]
          assets == SelectSeq(L.blocks, isAssetBlock)
          kept == SelectSeq(L.resolved, IsSite)
      IN  (Ret(L, "get_sites_for_state") /\ L.exc = "")
          => /\ Len(L.resolved) = Len(assets)
             /\ \A k \in 1..Len(assets) :
                  L.resolved[k].url = BASE_URL \o assets[k].href[1]
             /\ L.nationalSites = [k \in 1..Len(kept) |-> kept[k].ret[1]]

\* C7's case: three asset blocks, the second resolved to None, the first and
\* the third to two different sites.
C7_Witness ==
    \E p \in Procs :
      LET L == proc[p] IN
      /\ Ret(L, "get_sites_for_state") /\ L.exc = ""
      /\ Len(L.resolved) = 3 /\ L.resolved[2].ret = None
      /\ L.nationalSites = <<SiteKEWE, SiteISRO>>

\* C8 as stated: when the process is killed inside a call that writes a cache
\* file, the file is afterwards as it was before the call or holds the whole
\* new document.
C8_CrashLeavesOldOrNew ==
    \A p \in Procs :
      LET L == proc[p]
          f == CACHE_FILENAME(L.fn)
      IN  (L.pc = "dead" /\ L.exc = "killed" /\ L.fn \in CachedFns)
          => \/ disk[f] = L.snap[f]
             \/ disk[f] = [exists |-> TRUE, data |-> json_dumps(L.cache)]

\* C9: when get_site_instance returns a site after a miss, the document holds
\* the site's five fields under the URL; and every call for a URL for which a
\* miss returned a site before (in this process or one before it) hits, issues
\* no request and returns a site of the same five fields.
C9_MissPersistsBeforeReturn ==
    \A p \in Procs :
      LET L == proc[p] IN
      Ret(L, "get_site_instance")
      => /\ (L.exc = "" /\ ~L.hit /\ L.retSite # None)
            => /\ SiteDoc(disk).ok /\ DictHas(SiteDoc(disk).val, L.site_url)
               /\ siteFromEntry(DictGet(SiteDoc(disk).val, L.site_url)) = L.retSite[1]
               /\ DictGet(SiteDoc(disk).val, L.site_url).keys
                    = <<"category", "name", "address", "zipcode", "phone">>
         /\ returned[L.site_url] # None
            => /\ L.exc = "" /\ L.hit /\ L.reqs = 0
               /\ L.retSite = returned[L.site_url]

\* C9's case: a call from outside main hits for a site that a process running
\* main cached before it ended.
C9_Witness ==
    \E p \in Procs :
      LET L == proc[p] IN
      /\ Ret(L, "get_site_instance") /\ L.stack = <<>> /\ L.last = NoCall
      /\ L.hit /\ L.retSite = Some(SiteISRO) /\ returned[L.site_url] = Some(SiteISRO)

\* C10 as stated: at the site prompt with n sites listed, a token that is not
\* back, exit or a number in 1..n is answered with the input error and the
\* prompt again, with no call of get_nearby_places; a number in 1..n calls
\* get_nearby_places with the site listed under it.
C10_InvalidSelectionRejected ==
    [][\A p \in Procs :
         LET L == proc[p]
             M == proc'[p]
             id == int(M.token)
             valid == id.ok /\ id.n \in 1..Len(L.nationalStates)
         IN  (L.fn = "main" /\ L.pc = "site_prompt" /\ M # L)
             => /\ M.pc # "dead"
                /\ M.fn = "get_nearby_places"
                   => valid /\ M.site_object = Some(L.nationalStates[id.n])
                /\ (M.fn = "main" /\ M.pc = "site_prompt")
                   => ~valid /\ M.out = InputError
                /\ (valid /\ M.pc # "done") => M.fn = "get_nearby_places"]_vars

\* A call of build_state_url_dict that fetched a directory page with no <area>
\* element in it is returning.
NoAreasFetched(L) ==
    Ret(L, "build_state_url_dict") /\ ~L.hit /\ L.areas = Some(DirPageEmpty)

\* C11 as stated: when build_state_url_dict fetches a directory page with no
\* <area> element, it raises to its caller and returns no mapping.
C11_NoAreasRaises ==
    \A p \in Procs :
      LET L == proc[p] IN
      NoAreasFetched(L) => L.exc # "" /\ L.retVal = PyNone

\* A call of get_site_instance that fetched a page with the address block is
\* returning.
AddressFetched(L) == Ret(L, "get_site_instance") /\ ~L.hit /\ L.page.adr

\* The text t is the text s without its leading and trailing whitespace.
IsStripOf(t, s) ==
    /\ Len(t) > 0 => /\ SubSeq(t, 1, 1) \notin Whitespace
                     /\ SubSeq(t, Len(t), Len(t)) \notin Whitespace
    /\ \E i \in 0..Len(s) :
         /\ i + Len(t) <= Len(s)
         /\ SubSeq(s, i + 1, i + Len(t)) = t
         /\ \A k \in (1..i) \cup ((i + Len(t) + 1)..Len(s)) :
              SubSeq(s, k, k) \in Whitespace

\* The text s without its leading and trailing whitespace.
StrippedOf(s) ==
    CHOOSE t \in {SubSeq(s, i, j) : i \in 1..(Len(s) + 1), j \in 0..Len(s)} :
      IsStripOf(t, s)

\* C12 as stated: for a fetched page with the address block, get_site_instance
\* returns a site whose address is the city text, ", " and the region text,
\* and whose zipcode is the postal-code text without the whitespace around it.
C12_AddressIsCityCommaRegion ==
    \A p \in Procs :
      LET L == proc[p] IN
      AddressFetched(L)
      => /\ L.exc = "" /\ L.retSite # None
         /\ L.retSite[1].address
              = L.page.addressLocality[1] \o ", " \o L.page.addressRegion[1]
         /\ IsStripOf(L.retSite[1].zipcode, L.page.postalCode[1])

\* C12 amended: for a fetched page with the address block, the title block
\* and the telephone, get_site_instance returns a site whose address is the
\* city text as it is, ", " and the region text without the whitespace around
\* it, and whose zipcode is the postal-code text without the whitespace around
\* it; with the title block or the telephone missing it raises AttributeError.
C12_AddressIsCityCommaStrippedRegion ==
    \A p \in Procs :
      LET L == proc[p] IN
      AddressFetched(L)
      => IF TitleWhole(L.page) /\ L.page.telephone # NoEl
         THEN /\ L.exc = "" /\ L.retSite # None
              /\ L.retSite[1].address
                   = L.page.addressLocality[1] \o ", "
                       \o StrippedOf(L.page.addressRegion[1])
              /\ IsStripOf(L.retSite[1].zipcode, L.page.postalCode[1])
         ELSE L.exc = "AttributeError" /\ L.retSite = None

\* C12's case: a site is returned for a page whose city text begins with
\* whitespace, and one for a page whose region text ends with whitespace.
C12_Witness ==
    \E p \in Procs :
      LET L == proc[p] IN
      /\ AddressFetched(L) /\ L.retSite = Some(SiteKEWE)
      /\ L.last.fn = "get_site_instance" /\ ~L.last.hit
      /\ L.last.retSite = Some(SiteISRO)

\* The field of a result is there and holds a text that is not empty.
PresentNonEmpty(fields, name) ==
    /\ DictHas(fields, name)
    /\ DictGet(fields, name).t = "str" /\ DictGet(fields, name).s # ""

\* The text C13 wants shown for a field.
Shown(fields, name, placeholder) ==
    IF PresentNonEmpty(fields, name) THEN DictGet(fields, name).s ELSE placeholder

\* main has the answer of get_nearby_places, with results in it, to print.
ResultsToShow(L) ==
    /\ InMainCallee(L, "get_nearby_places") /\ L.exc = ""
    /\ DictHas(L.retVal, "searchResults")

\* C13: when main prints the results of get_nearby_places, the line of every
\* result shows its name, then as category fields.group_sic_code_name when
\* that is present and not empty and "no category" otherwise, as address
\* fields.address or "no address", and as city fields.city or "no city".
C13_PlaceholdersForMissingFields ==
    [][\A p \in Procs :
         LET L == proc[p]
             M == proc'[p]
             results == DictGet(L.retVal, "searchResults").kids
         IN  (ResultsToShow(L) /\ M # L)
             => /\ M.fn = "main" /\ M.pc = "site_prompt"
                /\ Len(M.out) = 3 + Len(results)
                /\ \A i \in 1..Len(results) :
                     LET fields == DictGet(results[i], "fields") IN
                     M.out[3 + i]
                       = "- " \o DictGet(results[i], "name").s
                           \o " (" \o Shown(fields, "group_sic_code_name", "no category")
                           \o "): " \o Shown(fields, "address", "no address")
                           \o ", " \o Shown(fields, "city", "no city")]_vars

\* C13's case: main printed a result with all three fields, one with empty
\* and null fields, and one whose address and city are not there.
C13_Witness ==
    \E p \in Procs :
      LET L == proc[p] IN
      /\ L.fn = "main" /\ L.pc = "site_prompt"
      /\ L.out = <<SEPERATOR, "Places near Isle Royale", SEPERATOR,
                   "- Suomi Cafe (Eating Places): 54 Huron St, Houghton",
                   "- Dock (no category): no address, no city",
                   "- Trailhead (no category): no address, no city">>

\* Two process instances have both returned from a call of fn that missed
\* the cache, fetched and wrote, each for a key of its own.
BothWrote(p, q, fn) ==
    /\ p # q
    /\ Wrote(proc[p]) /\ proc[p].fn = fn
    /\ Wrote(proc[q]) /\ proc[q].fn = fn
    /\ CallKey(proc[p]) # CallKey(proc[q])

\* The document a call writes: the cache it loaded with its own entry put in.
OwnDocument(L) == DictSet(L.loaded, CallKey(L), DictGet(L.cache, CallKey(L)))

\* C14: when two process instances have both returned well from misses on two
\* keys of one cache, the document of the file, when it can be read, is the
\* document of one of the two, made of what that one loaded and its own
\* entry: the entry of the other is in it only when it was loaded, never
\* merged in at the write.
C14_LastWriterWins ==
    \A p, q \in Procs : \A fn \in {"get_site_instance", "get_nearby_places"} :
      LET doc == openCache(disk, CACHE_FILENAME(fn)) IN
      (BothWrote(p, q, fn) /\ doc.ok)
      => \/ doc.val = OwnDocument(proc[p])
         \/ doc.val = OwnDocument(proc[q])

\* C14's case: both calls of get_site_instance returned their site, and the
\* document holds the entry of one of them alone.
C14_Witness ==
    \E p, q \in Procs :
      /\ BothWrote(p, q, "get_site_instance")
      /\ SiteDoc(disk).ok /\ DictLen(SiteDoc(disk).val) = 1
      /\ DictHas(SiteDoc(disk).val, proc[q].site_url)
      /\ proc[p].retSite = Some(SiteISRO) /\ proc[q].retSite = Some(SiteKEWE)

\* C15: every call of get_sites_for_state has fetched the state page once when
\* it returns or raises, whatever the caches hold; no step of
\* get_sites_for_state itself writes a file, and no document that is written
\* has a state URL for a key.
C15_StatePageAlwaysFetched ==
    [][\A p \in Procs :
         LET L == proc[p]
             M == proc'[p]
         IN  /\ L.fn = "get_sites_for_state" => disk' = disk
             /\ (Ret(M, "get_sites_for_state") /\ ~Ret(L, "get_sites_for_state"))
                => M.stateFetches = 1
             /\ disk' # disk
                => \A f \in Files : \A e \in DocItems(disk', f) : e[1] \notin StateUrls]_vars

\* C15's case: main lists a state whose two sites are in the cache, the
\* second of them from before this listing.
C15_Witness ==
    \E p \in Procs :
      LET L == proc[p] IN
      /\ Ret(L, "get_sites_for_state") /\ L.exc = "" /\ L.stack = <<"main">>
      /\ L.stateFetches = 1
      /\ L.nationalSites = <<SiteISRO, SiteKEWE>>
      /\ L.last.fn = "get_site_instance" /\ L.last.hit

\* A call of get_site_instance that missed the cache and fetched a page is
\* returning or raising.
PageFetched(L) == Ret(L, "get_site_instance") /\ ~L.hit /\ L.page # NoPage

\* get_sites_for_state is left by the exception its last call of
\* get_site_instance raised.
Aborted(L) ==
    /\ L.fn = "get_sites_for_state" /\ L.pc = "ret"
    /\ L.last.fn = "get_site_instance" /\ L.exc # "" /\ L.exc = L.last.exc

\* The sites get_sites_for_state has resolved so far are in the site-detail
\* document.
ResolvedStayCached(L) ==
    \A k \in 1..Len(L.resolved) :
      L.resolved[k].ret # None
      => /\ DictHas(SiteDoc(disk).val, L.resolved[k].url)
         /\ siteFromEntry(DictGet(SiteDoc(disk).val, L.resolved[k].url))
              = L.resolved[k].ret[1]

\* What follows in get_sites_for_state when its call of get_site_instance
\* raised: the exception leaves get_sites_for_state too, and the sites
\* resolved before are still in the document.
RaiseAbortsListing(L) ==
    (L.fn = "get_sites_for_state" /\ L.last.fn = "get_site_instance" /\ L.last.exc # "")
    => Aborted(L) /\ ResolvedStayCached(L)

\* C16 as stated: for a fetched page whose title block or telephone is
\* missing, get_site_instance raises, returns no None and leaves the
\* site-detail document as it was; the exception leaves the enclosing
\* get_sites_for_state, and the sites resolved before stay cached.
C16_TitleOrPhoneMissingRaises ==
    \A p \in Procs :
      LET L == proc[p] IN
      /\ (PageFetched(L) /\ (~TitleWhole(L.page) \/ L.page.telephone = NoEl))
         => /\ L.exc # "" /\ L.retSite = None
            /\ disk[SITE_CACHE_FILENAME] = L.snap[SITE_CACHE_FILENAME]
      /\ RaiseAbortsListing(L)

\* C16 amended: for a fetched page whose title block is missing, or whose
\* telephone is missing while the address block is there, get_site_instance
\* raises AttributeError and leaves the site-detail document as it was; for
\* a page with the title block and neither address block nor telephone it
\* returns None; the exception leaves the enclosing get_sites_for_state, and
\* the sites resolved before stay cached.
C16_TitleOrPhoneWithAddressMissingRaises ==
    \A p \in Procs :
      LET L == proc[p] IN
      /\ (PageFetched(L) /\ (~TitleWhole(L.page) \/ L.page.telephone = NoEl))
         => /\ L.retSite = None
            /\ disk[SITE_CACHE_FILENAME] = L.snap[SITE_CACHE_FILENAME]
            /\ L.exc = IF ~TitleWhole(L.page) \/ L.page.adr
                       THEN "AttributeError" ELSE ""
      /\ RaiseAbortsListing(L)

\* C16's case: get_sites_for_state resolved and cached one site, and the
\* AttributeError of the call for the next site has ended it.
C16_Witness ==
    \E p \in Procs :
      LET L == proc[p] IN
      /\ Aborted(L) /\ L.exc = "AttributeError"
      /\ L.resolved = <<[url |-> ISRO_URL, ret |-> Some(SiteISRO)]>>
      /\ L.last.key = KEWE_URL /\ ~L.last.hit
      /\ DictLen(SiteDoc(disk).val) = 1

\* The response has no results collection in it.
NoResults(d) == ~DictHas(d, "searchResults")

\* What main prints for a response with no results collection.
ZeroMatches(ns) ==
    <<SEPERATOR, "Places near " \o ns.name, SEPERATOR, "No such near results", SEPERATOR>>

\* get_nearby_places with a response that has no results collection: a miss
\* returns it with no exception and leaves it in the document under the
\* postal code, and a call that finds it in the document returns it with no
\* request.
NoResultsIsCached(L) ==
    LET key == CallKey(L)
        was == NearbyDoc(L.snap)
    IN  Ret(L, "get_nearby_places")
        => /\ (~L.hit /\ L.exc = "" /\ NoResults(L.retVal))
              => /\ NearbyDoc(disk).ok /\ DictHas(NearbyDoc(disk).val, key)
                 /\ DictGet(NearbyDoc(disk).val, key) = L.retVal
           /\ (was.ok /\ DictHas(was.val, key) /\ NoResults(DictGet(was.val, key)))
              => /\ L.hit /\ L.reqs = 0 /\ L.exc = ""
                 /\ L.retVal = DictGet(was.val, key)
                 /\ disk = L.snap

\* C17: a response without the results collection is stored under the postal
\* code and returned with no error, later lookups of the postal code return
\* it from the cache, and main prints that there are no results and asks for
\* a site number again.
C17_NoResultsIsValidOutcome ==
    /\ [](\A p \in Procs : NoResultsIsCached(proc[p]))
    /\ [][\A p \in Procs :
            LET L == proc[p]
                M == proc'[p]
            IN  (InMainCallee(L, "get_nearby_places") /\ L.exc = ""
                 /\ NoResults(L.retVal) /\ M # L)
                => /\ M.fn = "main" /\ M.pc = "site_prompt"
                   /\ M.out = ZeroMatches(L.site_object[1])
                   /\ M.nationalStates = L.nationalStates]_vars

\* C17's case: main printed that there are no results near the second site
\* of the list, and the response is in the document.
C17_Witness ==
    \E p \in Procs :
      LET L == proc[p] IN
      /\ L.fn = "main" /\ L.pc = "site_prompt"
      /\ L.out = ZeroMatches(SiteKEWE)
      /\ DictHas(NearbyDoc(disk).val, ZIP_KEWE)
      /\ NoResults(DictGet(NearbyDoc(disk).val, ZIP_KEWE))

\* The files a function may write, by C18: the document of its own domain
\* for each of the three caching functions, none for anything else.
MayWrite(fn) ==
    CASE fn = "build_state_url_dict" -> {"STATE_URL_DICT.json"}
      [] fn = "get_site_instance" -> {"SITE_URL_DICT.json"}
      [] fn = "get_nearby_places" -> {"NEARBY_PLACES.json"}
      [] OTHER -> {}

\* A finished call of a caching function has left the other files as they
\* were, and after a cache hit all of them.
OthersKept(L) ==
    (L.pc = "ret" /\ L.fn \in CachedFns)
    => /\ \A f \in Files \ MayWrite(L.fn) : disk[f] = L.snap[f]
       /\ L.hit => disk = L.snap

\* C18: every step of a function leaves all files but the one of its own
\* domain as they are, and a step of get_sites_for_state or main all of them;
\* when a call of a caching function is over the other two files are as they
\* were at its start, and after a cache hit all three.
C18_DomainsIndependent ==
    /\ [](\A p \in Procs : OthersKept(proc[p]))
    /\ [][\A p \in Procs :
            proc'[p] # proc[p]
            => \A f \in Files \ MayWrite(proc[p].fn) : disk'[f] = disk[f]]_vars

\* C18's case: all three files are there and get_nearby_places has just
\* written its own.
C18_Witness ==
    \E p \in Procs :
      LET L == proc[p] IN
      /\ Ret(L, "get_nearby_places") /\ ~L.hit /\ L.exc = ""
      /\ \A f \in Files : L.snap[f].exists
      /\ disk["NEARBY_PLACES.json"] # L.snap["NEARBY_PLACES.json"]
      /\ DictLen(SiteDoc(disk).val) = 2 /\ DictLen(StateDoc(disk).val) = 2

\* The call of get_site_instance before this one, in this process, was for
\* the same URL and returned None.
NoneBefore(L) ==
    /\ L.last.fn = "get_site_instance" /\ L.last.key = L.site_url
    /\ L.last.exc = "" /\ L.last.retSite = None

\* C19: a call of get_site_instance that returns None has fetched a page
\* without address block and leaves the document as it was, without the URL
\* in it; so the next call for the URL misses the cache and fetches again, and
\* returns None again when the page still has its title block and no address
\* block.
C19_NoNegativeCaching ==
    \A p \in Procs :
      LET L == proc[p] IN
      Ret(L, "get_site_instance")
      => /\ (L.exc = "" /\ L.retSite = None)
            => /\ ~L.hit /\ L.reqs = 1 /\ ~L.page.adr
               /\ disk = L.snap
               /\ ~DictHas(SiteDoc(disk).val, L.site_url)
         /\ NoneBefore(L)
            => /\ ~L.hit /\ L.reqs = 1
               /\ (NoAddressFetched(L) /\ TitleWhole(L.page))
                  => L.exc = "" /\ L.retSite = None

\* C19's case: a state page lists the same site three times and its page has
\* no address block: the third call in get_sites_for_state fetches and
\* returns None as the second did, and nothing is listed.
C19_Witness ==
    \E p \in Procs :
      LET L == proc[p] IN
      /\ Ret(L, "get_site_instance") /\ L.stack = <<"get_sites_for_state">>
      /\ L.blocks = <<BlockISRO, BlockISRO, BlockISRO>> /\ L.bi = 4
      /\ NoneBefore(L) /\ L.exc = "" /\ L.retSite = None /\ L.reqs = 1
      /\ L.nationalSites = <<>>

====
